---- MODULE Spec2Model ----
(***************************************************************************)
(* Model of the wxMesh weewx driver (wxMesh.py): an MQTT client whose      *)
(* callbacks (on_connect, on_message) run on the transport's loop thread   *)
(* and feed payloadQueue, and the generator genLoopPackets, driven by the  *)
(* consumer thread, which drains the queue, decodes each payload as JSON,  *)
(* maps it through label_map and yields loop packets.                      *)
(***************************************************************************)
EXTENDS Integers, Sequences, FiniteSets, TLC

VARIABLES
  payloadQueue,   \* self.payloadQueue: the queued payload texts, head first
  connected,      \* self.connected
  label_map,      \* self.label_map: source key -> weewx name (set of pairs as a function)
  subscribes,     \* number of client.subscribe(topic, qos=1) requests issued
  lastConnect,    \* what the last on_connect callback did: "none", "subscribed", "failed"
  loopRunning,    \* the client's network loop thread is running (loop_start / loop_stop)
  disconnects,    \* client.disconnect() has been requested
  delivered,      \* number of on_message callbacks the transport has made
  connects,       \* number of on_connect callbacks the transport has made
  pc,             \* position of the genLoopPackets generator
  msg,            \* the generator's local msg (the payload last dequeued)
  packet,         \* the generator's local _packet (the record last yielded)
  exc,            \* the exception that ended the generator ("" while it lives)
  now,            \* int(time.time()) of the local clock
  enqueued,       \* history: every payload put on the queue, in order
  dequeued,       \* history: every payload got from the queue, in order
  nYielded,       \* history: number of records yielded
  decodeErrors,   \* history: number of "Failed loading JSON" errors logged
  convErrors,     \* history: number of "cannot read value" errors logged
  producedAt,     \* history: the local clock when the last record was built
  lateEnq         \* history: a payload has been enqueued while the generator was inside
                  \* the drain loop of its current cycle (FALSE once the cycle is over)

vars == <<payloadQueue, connected, label_map, subscribes, lastConnect, loopRunning,
          disconnects, delivered, connects, pc, msg, packet, exc, now, enqueued, dequeued,
          nYielded, decodeErrors, convErrors, producedAt, lateEnq>>

(***************************************************************************)
(* Bounds of the model.                                                    *)
(***************************************************************************)
\* messages the transport delivers in one behaviour
MaxMsgs == 2
\* seconds the local clock advances in one behaviour
MaxTicks == 1
\* on_connect callbacks in one behaviour
MaxConnects == 2

(***************************************************************************)
(* Program constants.                                                      *)
(***************************************************************************)
\* weewx.METRIC
METRIC == 16
\* the local clock at construction; station clocks of the payloads are far from it
Epoch == 1000

(***************************************************************************)
(* JSON values.  A value is [t, n]: t the JSON/Python type, n the number   *)
(* it denotes (0 where it denotes none).                                   *)
(*   "num"    a JSON number n                                              *)
(*   "numstr" a JSON string that float() parses, to n                      *)
(*   "str"    a JSON string that float() rejects (ValueError)              *)
(*   "null"   JSON null, Python None (float() raises TypeError)            *)
(*   "list"   a nested JSON list or object (float() raises TypeError)      *)
(* Record values add "float" (a Python float), "int" and "None".           *)
(***************************************************************************)
Val(t, n) == [t |-> t, n |-> n]
None == Val("None", 0)

(***************************************************************************)
(* Messages the transport delivers.  A message is [kind, items]:           *)
(*   "badutf8"  bytes that are not valid UTF-8                             *)
(*   "invalid"  text that is not valid JSON (truncated, say)               *)
(*   "list"     valid JSON that is not an object                           *)
(*   "object"   a JSON object; items is its key/value pairs in order       *)
(***************************************************************************)
Message(kind, items) == [kind |-> kind, items |-> items]

ObjNumeric  == Message("object", << <<"temp", Val("numstr", 21)>> >>)
ObjNonNum   == Message("object", << <<"extra", Val("str", 0)>>, <<"temp", Val("str", 0)>> >>)
ObjNull     == Message("object", << <<"temp", Val("null", 0)>> >>)
ObjNested   == Message("object", << <<"temp", Val("str", 0)>>, <<"time", Val("list", 0)>> >>)
ObjStation  == Message("object", << <<"TIME", Val("num", 5)>>, <<"time", Val("num", 5)>>,
                                    <<"temp", Val("num", 21)>> >>)
Invalid     == Message("invalid", << >>)
NotObject   == Message("list", << >>)
BadUtf8     == Message("badutf8", << >>)

Messages == {ObjNumeric, ObjNonNum, ObjNull, ObjNested, ObjStation, Invalid, NotObject, BadUtf8}

(***************************************************************************)
(* The label maps a station is configured with (stn_dict['label_map']).    *)
(***************************************************************************)
\* the map of the driver's own documentation: no entry for TIME
LabelDoc     == [k \in {"temp"} |-> "outTemp"]
\* TIME, the key the generator writes, mapped to weewx's dateTime
LabelTime    == [k \in {"temp", "TIME"} |-> IF k = "temp" THEN "outTemp" ELSE "dateTime"]
\* the station's own time key mapped to dateTime
LabelStation == [k \in {"temp", "time"} |-> IF k = "temp" THEN "outTemp" ELSE "dateTime"]
\* a source key mapped onto usUnits
LabelUnits   == [k \in {"temp", "TIME"} |-> IF k = "temp" THEN "usUnits" ELSE "dateTime"]

LabelMaps == {LabelDoc, LabelTime, LabelStation, LabelUnits}

(***************************************************************************)
(* Python dicts, as sequences of <<key, value>> pairs in insertion order.  *)
(***************************************************************************)
Keys(d) == {d[i][1] : i \in 1..Len(d)}

\* d[k], for k in d
GetItem(d, k) == d[CHOOSE i \in 1..Len(d) : d[i][1] = k][2]

\* d[k] = v: replaces in place, or appends a new key
SetItem(d, k, v) ==
  IF k \in Keys(d)
    THEN [i \in 1..Len(d) |-> IF d[i][1] = k THEN <<k, v>> ELSE d[i]]
    ELSE Append(d, <<k, v>>)

(***************************************************************************)
(* The conversions the driver applies.                                     *)
(***************************************************************************)
\* msg.payload.decode('utf-8'): the text, or UnicodeDecodeError
DecodeUtf8Raises(m) == m.kind = "badutf8"

\* json.loads(text) raises (ValueError/JSONDecodeError) on text that is not JSON
JsonLoadsRaises(text) == text.kind = "invalid"

\* json.loads(text) returns a dict only for a JSON object
IsDict(text) == text.kind = "object"

\* float(x): the exception it raises, "" when it returns
FloatRaises(x) ==
  CASE x.t \in {"num", "numstr", "int", "float"} -> ""
    [] x.t = "str" -> "ValueError"
    [] OTHER -> "TypeError"

\* a faulty _get_as_float: a value float() rejects reads as 0.0 instead of None
GetAsFloatZero(d, s) ==
  IF s \notin Keys(d)
    THEN [exc |-> "", v |-> None, logged |-> 0]
    ELSE LET x == GetItem(d, s) IN
         CASE FloatRaises(x) = "" -> [exc |-> "", v |-> Val("float", x.n), logged |-> 0]
           [] FloatRaises(x) = "ValueError" -> [exc |-> "", v |-> Val("float", 0), logged |-> 1]
           [] OTHER -> [exc |-> "NameError", v |-> None, logged |-> 0]

\* _get_as_float(d, s): [exc, v, logged].  ValueError is caught and logged and
\* None returned; any other exception reaches "except e:", where the name e is
\* not defined, so a NameError leaves the function.
_get_as_float(d, s) ==
  IF s \notin Keys(d)
    THEN [exc |-> "", v |-> None, logged |-> 0]
    ELSE LET x == GetItem(d, s) IN
         CASE FloatRaises(x) = "" -> [exc |-> "", v |-> Val("float", x.n), logged |-> 0]
           [] FloatRaises(x) = "ValueError" -> [exc |-> "", v |-> None, logged |-> 1]
           [] OTHER -> [exc |-> "NameError", v |-> None, logged |-> 0]

\* _packet[name] = v
SetField(pkt, name, v) ==
  [f \in DOMAIN pkt \cup {name} |-> IF f = name THEN v ELSE pkt[f]]

\* _packet = {'usUnits': weewx.METRIC}
NewPacket == [f \in {"usUnits"} |-> Val("int", METRIC)]

\* for vname in data: if vname in label_map: _packet[label_map[vname]] = _get_as_float(...)
\* from the i-th key on; acc is [pkt, exc, logged]
RECURSIVE MapFrom(_, _, _, _)
MapFrom(data, lm, i, acc) ==
  IF i > Len(data) \/ acc.exc # ""
    THEN acc
    ELSE LET vname == data[i][1] IN
         IF vname \in DOMAIN lm
           THEN LET r == _get_as_float(data, vname) IN
                MapFrom(data, lm, i + 1,
                        [pkt |-> IF r.exc = "" THEN SetField(acc.pkt, lm[vname], r.v)
                                               ELSE acc.pkt,
                         exc |-> r.exc,
                         logged |-> acc.logged + r.logged])
           ELSE MapFrom(data, lm, i + 1, acc)

\* data['TIME'] = int(time.time()), on a dict
Stamped(text, t) == SetItem(text.items, "TIME", Val("int", t))

\* Lines 136-146 on a decoded payload: [pkt, exc, logged].  data['TIME'] = ... on
\* anything but a dict raises TypeError.
MapPayload(text, lm, t) ==
  IF ~IsDict(text)
    THEN [pkt |-> NewPacket, exc |-> "TypeError", logged |-> 0]
    ELSE MapFrom(Stamped(text, t), lm, 1,
                 [pkt |-> NewPacket, exc |-> "", logged |-> 0])

(***************************************************************************)
(* queue.Queue: put at the tail, get from the head.                        *)
(***************************************************************************)
\* a faulty put: pushes at the head (a LIFO queue)
PutFront(q, x) == <<x>> \o q
Put(q, x) == Append(q, x)
GetFirst(q) == Head(q)
\* a faulty get: hands out the head but removes the item at the tail
GetRestLast(q) == SubSeq(q, 1, Len(q) - 1)
GetRest(q) == Tail(q)

(***************************************************************************)
(* State after wxMesh.__init__: an empty queue, connected False, the       *)
(* callbacks bound, connect() requested and the network loop started; the  *)
(* generator object not yet started by the consumer.                       *)
(***************************************************************************)
Init ==
  /\ payloadQueue = << >>
  /\ connected = FALSE
  /\ label_map \in LabelMaps
  /\ subscribes = 0
  /\ lastConnect = "none"
  /\ loopRunning = TRUE
  /\ disconnects = FALSE
  /\ delivered = 0
  /\ connects = 0
  /\ pc = "start"
  /\ msg = Invalid
  /\ packet = NewPacket
  /\ exc = ""
  /\ now = Epoch
  /\ enqueued = << >>
  /\ dequeued = << >>
  /\ nYielded = 0
  /\ decodeErrors = 0
  /\ convErrors = 0
  /\ producedAt = Epoch
  /\ lateEnq = FALSE

genVars == <<pc, msg, packet, exc, dequeued, nYielded, decodeErrors, convErrors, producedAt>>

\* no cycle of the generator is in progress: not started, sleeping, or ended
Idle(p) == p \in {"start", "sleep", "raised"}

\* the generator is inside the body of the drain loop (lines 129-146)
InDrain(p) == p \in {"get", "decode", "yield"}
connVars == <<connected, subscribes, lastConnect, connects>>
portVars == <<loopRunning, disconnects>>

(***************************************************************************)
(* Transport thread: the callbacks of the network loop.                    *)
(***************************************************************************)
\* a faulty on_connect: subscribes only on the first successful connect
OnConnectOnce(rc) ==
  /\ loopRunning
  /\ connects < MaxConnects
  /\ connects' = connects + 1
  /\ IF rc = 0
       THEN /\ subscribes' = IF connected THEN subscribes ELSE subscribes + 1
            /\ connected' = TRUE
            /\ lastConnect' = "subscribed"
       ELSE /\ lastConnect' = "failed"
            /\ UNCHANGED <<subscribes, connected>>
  /\ UNCHANGED <<payloadQueue, label_map, portVars, delivered, genVars, now, enqueued,
                 lateEnq>>

\* on_connect(client, userdata, flags, rc): subscribe and set connected on rc = 0,
\* only log otherwise
on_connect(rc) ==
  /\ loopRunning
  /\ connects < MaxConnects
  /\ connects' = connects + 1
  /\ IF rc = 0
       THEN /\ subscribes' = subscribes + 1
            /\ connected' = TRUE
            /\ lastConnect' = "subscribed"
       ELSE /\ lastConnect' = "failed"
            /\ UNCHANGED <<subscribes, connected>>
  /\ UNCHANGED <<payloadQueue, label_map, portVars, delivered, genVars, now, enqueued,
                 lateEnq>>

\* on_message(client, userdata, msg): put the decoded payload on the queue; bytes
\* that are not UTF-8 raise in the callback before the put
on_message(m) ==
  /\ loopRunning
  /\ delivered < MaxMsgs
  /\ delivered' = delivered + 1
  /\ IF DecodeUtf8Raises(m)
       THEN UNCHANGED <<payloadQueue, enqueued>>
       ELSE /\ payloadQueue' = Put(payloadQueue, m)
            /\ enqueued' = Append(enqueued, m)
  /\ lateEnq' = IF Idle(pc) THEN FALSE
                ELSE (lateEnq \/ (InDrain(pc) /\ ~DecodeUtf8Raises(m)))
  /\ UNCHANGED <<label_map, connVars, portVars, genVars, now>>

\* a faulty shutdown: the second call starts the loop thread again
ClosePortToggle(port) == [disconnects |-> TRUE, loopRunning |-> port.disconnects]

\* what closePort makes of the client: disconnect requested, delivery loop stopped
ClosePortEffect(port) == [disconnects |-> TRUE, loopRunning |-> FALSE]

\* the client as closePort sees it
Port == [disconnects |-> disconnects, loopRunning |-> loopRunning]

\* closePort(): client.disconnect(); client.loop_stop()
closePort ==
  /\ disconnects' = ClosePortEffect(Port).disconnects
  /\ loopRunning' = ClosePortEffect(Port).loopRunning
  /\ UNCHANGED <<payloadQueue, label_map, connVars, delivered, genVars, now, enqueued,
                 lateEnq>>

\* the local clock advances; the driver reads it only at line 136, so its advance
\* is taken where it can be observed, before that reading
Tick ==
  /\ pc = "decode"
  /\ now < Epoch + MaxTicks
  /\ now' = now + 1
  /\ UNCHANGED <<payloadQueue, label_map, connVars, portVars, delivered, genVars, enqueued,
                 lateEnq>>

(***************************************************************************)
(* Consumer thread: the generator genLoopPackets.                          *)
(***************************************************************************)
\* the consumer asks for the next record: the first next() enters "while True",
\* a later one resumes after the yield; both arrive at the emptiness check
ConsumerNext ==
  /\ pc \in {"start", "yield"}
  /\ pc' = "check"
  /\ UNCHANGED <<payloadQueue, label_map, connVars, portVars, delivered, msg, packet, exc,
                 now, enqueued, dequeued, nYielded, decodeErrors, convErrors, producedAt, lateEnq>>

\* a faulty check: the loop condition inverted ("while self.payloadQueue.empty()")
GenCheckInverted ==
  /\ pc = "check"
  /\ pc' = IF payloadQueue = << >> THEN "get" ELSE "sleep"
  /\ lateEnq' = IF Idle(pc') THEN FALSE ELSE lateEnq
  /\ UNCHANGED <<payloadQueue, label_map, connVars, portVars, delivered, msg, packet, exc,
                 now, enqueued, dequeued, nYielded, decodeErrors, convErrors, producedAt>>

\* while not self.payloadQueue.empty(): enter the body, or leave for the sleep
GenCheck ==
  /\ pc = "check"
  /\ pc' = IF payloadQueue = << >> THEN "sleep" ELSE "get"
  /\ lateEnq' = IF Idle(pc') THEN FALSE ELSE lateEnq
  /\ UNCHANGED <<payloadQueue, label_map, connVars, portVars, delivered, msg, packet, exc,
                 now, enqueued, dequeued, nYielded, decodeErrors, convErrors, producedAt>>

\* msg = self.payloadQueue.get(block=True, timeout=3); returns once the queue holds
\* an item
GenGet ==
  /\ pc = "get"
  /\ payloadQueue # << >>
  /\ msg' = GetFirst(payloadQueue)
  /\ payloadQueue' = GetRest(payloadQueue)
  /\ dequeued' = Append(dequeued, GetFirst(payloadQueue))
  /\ pc' = "decode"
  /\ UNCHANGED <<label_map, connVars, portVars, delivered, packet, exc, now, enqueued,
                 nYielded, decodeErrors, convErrors, producedAt, lateEnq>>

\* a faulty handler: "break" in place of "continue" leaves the drain for the sleep
AfterDecodeErrorBreak == "sleep"
\* where the generator goes after "except Exception: ... continue"
AfterDecodeError == "check"

\* lines 130-146: decode msg, stamp TIME, build the packet and yield it; a decode
\* failure is logged and the loop continues; an exception of the mapping leaves
\* the generator
GenProcess ==
  /\ pc = "decode"
  /\ IF JsonLoadsRaises(msg)
       THEN /\ decodeErrors' = decodeErrors + 1
            /\ pc' = AfterDecodeError
            /\ UNCHANGED <<packet, exc, nYielded, convErrors, producedAt>>
       ELSE LET r == MapPayload(msg, label_map, now) IN
            /\ convErrors' = convErrors + r.logged
            /\ decodeErrors' = decodeErrors
            /\ IF r.exc # ""
                 THEN /\ pc' = "raised"
                      /\ exc' = r.exc
                      /\ UNCHANGED <<packet, nYielded, producedAt>>
                 ELSE /\ pc' = "yield"
                      /\ packet' = r.pkt
                      /\ nYielded' = nYielded + 1
                      /\ producedAt' = now
                      /\ exc' = exc
  /\ lateEnq' = IF Idle(pc') THEN FALSE ELSE lateEnq
  /\ UNCHANGED <<payloadQueue, label_map, connVars, portVars, delivered, msg, now,
                 enqueued, dequeued>>

\* time.sleep(self.poll_interval), then the next cycle of "while True"
GenSleep ==
  /\ pc = "sleep"
  /\ pc' = "check"
  /\ UNCHANGED <<payloadQueue, label_map, connVars, portVars, delivered, msg, packet, exc,
                 now, enqueued, dequeued, nYielded, decodeErrors, convErrors, producedAt, lateEnq>>

Generator == GenCheck \/ GenGet \/ GenProcess \/ GenSleep

Next ==
  \/ \E rc \in {0, 5} : on_connect(rc)
  \/ \E m \in Messages : on_message(m)
  \/ closePort
  \/ Tick
  \/ ConsumerNext
  \/ GenCheck
  \/ GenGet
  \/ GenProcess
  \/ GenSleep

Spec == Init /\ [][Next]_vars

\* The data path alone: messages, shutdown, the consumer and the generator.  The
\* steps left out (on_connect, Tick) change only connVars and now, which no guard of
\* the data path reads.
NextData ==
  \/ \E m \in Messages : on_message(m)
  \/ closePort
  \/ ConsumerNext
  \/ GenCheck
  \/ GenGet
  \/ GenProcess
  \/ GenSleep

\* The consumer thread runs: a generator step that is possible is eventually taken.
\* Nothing obliges the transport to deliver or the consumer to ask again.
FairSpec == Init /\ [][NextData]_vars /\ WF_vars(Generator)

\* As FairSpec, with a consumer that keeps pulling: it asks for the next record
\* whenever the generator is suspended at a yield (or not yet started).
FairPullSpec ==
  Init /\ [][NextData]_vars /\ WF_vars(Generator) /\ WF_vars(ConsumerNext)

(***************************************************************************)
(* Properties.                                                             *)
(***************************************************************************)
IsPrefix(s, t) == Len(s) <= Len(t) /\ SubSeq(t, 1, Len(s)) = s

\* the generator step that processes the dequeued payload (lines 130-146)
ProcessStep == pc = "decode" /\ pc' # "decode"

\* C1: in every interleaving of on_message with the generator's steps, the payloads
\* dequeued so far are a prefix of the payloads enqueued, and what is enqueued and
\* not yet dequeued is exactly the queue: nothing is skipped, repeated or reordered.
C1_DequeuedIsPrefix ==
  /\ IsPrefix(dequeued, enqueued)
  /\ enqueued = dequeued \o payloadQueue

\* C1 witness: two different payloads have been dequeued, the generator holding the
\* second one.
C1_Witness ==
  /\ Len(dequeued) = 2
  /\ dequeued[1] # dequeued[2]
  /\ pc = "decode"

\* C2 (as claimed): no payload ends the generator by an exception.
C2_NeverRaises == pc # "raised" /\ exc = ""

\* C3: a dequeued payload that is not valid JSON is logged as a decode error, yields
\* no record, and the generator's next position is the emptiness check, with the
\* payloads behind it still on the queue in their order.
C3_DecodeErrorContinues ==
  [][(ProcessStep /\ JsonLoadsRaises(msg)) =>
       /\ pc' = "check"
       /\ decodeErrors' = decodeErrors + 1
       /\ nYielded' = nYielded
       /\ packet' = packet
       /\ exc' = ""
       /\ payloadQueue' = payloadQueue
       /\ enqueued = dequeued \o payloadQueue]_vars

\* C3 witness: an invalid payload was dequeued first and logged, and the payload
\* queued behind it was dequeued next and yielded a record.
C3_Witness ==
  /\ Len(dequeued) = 2
  /\ dequeued[1] = Invalid
  /\ decodeErrors = 1
  /\ nYielded = 1
  /\ pc = "yield"

\* positions in the stamped dict of the keys that are in label_map and whose value
\* float() refuses with the given exception
MappedRaising(data, e) ==
  {i \in 1..Len(data) : data[i][1] \in DOMAIN label_map /\ FloatRaises(data[i][2]) = e}

\* no key after position i of the dict maps to the same target as the key at i
NotOverwritten(data, i) ==
  \A j \in (i + 1)..Len(data) :
    data[j][1] \in DOMAIN label_map => label_map[data[j][1]] # label_map[data[i][1]]

TimestampFields(pkt) == {f \in DOMAIN pkt : pkt[f] = Val("float", producedAt)}

\* every key of the payload is in label_map and has a numeric value
AllMappedNumeric(m) ==
  /\ IsDict(m)
  /\ \A i \in 1..Len(m.items) :
       m.items[i][1] \in DOMAIN label_map /\ FloatRaises(m.items[i][2]) = ""

\* C5 (as claimed): a payload whose keys are all mapped and numeric gives a record
\* whose fields are exactly the targets of its keys plus the unit tag and the
\* timestamp, each target holding its source's number; and no key outside label_map
\* contributes a field.
C5_ExactFields ==
  pc = "yield" =>
    /\ AllMappedNumeric(msg) =>
         /\ TimestampFields(packet) # {}
         /\ DOMAIN packet = {label_map[k] : k \in Keys(msg.items)} \cup {"usUnits"}
                              \cup TimestampFields(packet)
         /\ \A i \in 1..Len(msg.items) :
              msg.items[i][1] # "TIME" =>
                packet[label_map[msg.items[i][1]]] = Val("float", msg.items[i][2].n)
    /\ DOMAIN packet \subseteq
         {label_map[k] : k \in (Keys(msg.items) \cup {"TIME"}) \cap DOMAIN label_map}
           \cup {"usUnits"}

\* C6 (as claimed): every yielded record has a timestamp field holding the local
\* time of its production, and its time field never holds a value of the payload.
C6_Timestamp ==
  pc = "yield" =>
    /\ TimestampFields(packet) # {}
    /\ "dateTime" \in DOMAIN packet => packet["dateTime"] = Val("float", producedAt)

\* C7 (as claimed): every yielded record has usUnits equal to METRIC.
C7_UnitsMetric ==
  pc = "yield" => "usUnits" \in DOMAIN packet /\ packet["usUnits"] = Val("int", METRIC)

\* the generator has control: the consumer is waiting for its request to return
Running == pc \in {"check", "get", "decode", "sleep"}

\* C8 (as claimed): every request for the next record eventually returns control to
\* the consumer (a record yielded, or the generator ended).
C8_ReturnsControl == Running ~> (pc \in {"yield", "raised"})

\* C8 (amended): a request returns control once a payload that is valid JSON is on
\* the queue (by a record or by an exception); while the queue is empty and stays
\* empty the generator only alternates the emptiness check and the sleep, so with a
\* silent source the request never returns.
C8_ReturnsOnlyOnPayload ==
  /\ (Running /\ \E i \in 1..Len(payloadQueue) : ~JsonLoadsRaises(payloadQueue[i]))
       ~> (pc \in {"yield", "raised"})
  /\ [][(pc \in {"check", "sleep"} /\ payloadQueue = << >> /\ payloadQueue' = << >>)
          => pc' \in {"check", "sleep"}]_vars

\* C8 witness: a request is pending in the sleep with the queue empty and the
\* delivery loop stopped, so that no message can arrive any more.
C8_Witness ==
  /\ pc = "sleep"
  /\ payloadQueue = << >>
  /\ ~loopRunning
  /\ nYielded >= 1

\* C9 (as claimed): once closePort has been called the generator begins no new
\* cycle: it does not go from the sleep back to the emptiness check.
C9_NoCycleAfterClose ==
  [][(disconnects /\ pc = "sleep") => pc' = "sleep"]_vars

\* C10 (as claimed): after an on_connect callback with a non-zero result code the
\* driver is not connected.
C10_FailedIsDisconnected == lastConnect = "failed" => ~connected

C13_EveryMessageQueued == Len(enqueued) = delivered

\* C14: a cycle whose emptiness check finds the queue empty yields no record, logs
\* and raises nothing, and goes to the sleep; the generator leaves the sleep only for
\* the next cycle's emptiness check, so that check comes after the sleep.
C14_IdleCycleSleeps ==
  /\ [][(pc = "check" /\ payloadQueue = << >> /\ pc' # pc) =>
          /\ pc' = "sleep"
          /\ nYielded' = nYielded
          /\ decodeErrors' = decodeErrors
          /\ convErrors' = convErrors
          /\ exc' = "" /\ exc = ""
          /\ dequeued' = dequeued]_vars
  /\ [][(pc = "sleep" /\ pc' # pc) => pc' = "check"]_vars
  /\ [][(pc = "check" /\ pc' # pc) => pc' \in {"sleep", "get"}]_vars

\* C14 witness: an idle cycle: nothing was ever delivered and the generator is in
\* the sleep, having yielded nothing.
C14_Witness ==
  /\ pc = "sleep"
  /\ delivered = 0
  /\ payloadQueue = << >>
  /\ nYielded = 0
  /\ exc = ""

C16_DrainEndsInSleep == InDrain(pc) ~> (pc = "sleep")

\* C17: whenever the generator is about to call payloadQueue.get the queue holds an
\* item: nothing but the generator removes items, so the get neither waits nor
\* raises queue.Empty.
C17_GetFindsItem == pc = "get" => payloadQueue # << >>

\* C17 witness: on_message ran between the emptiness check and the first get of a
\* cycle: the generator is at the get with two payloads queued.
C17_Witness ==
  /\ pc = "get"
  /\ dequeued = << >>
  /\ lateEnq
  /\ Len(payloadQueue) = 2

\* C18 (as claimed): with fair scheduling and a consumer that keeps pulling, every
\* enqueued payload is eventually dequeued, and every dequeued payload is accounted
\* for by one yielded record or one logged decode error.
C18_NoPayloadLost ==
  /\ [](pc # "decode" => Len(dequeued) = nYielded + decodeErrors)
  /\ \A n \in 1..MaxMsgs : (Len(enqueued) >= n) ~> (Len(dequeued) >= n)

\* C19: a step of the generator leaves connected and label_map (and the rest of the
\* connection and port state) unchanged and takes from the queue only its head; a
\* step of on_message changes only the queue, at most appending one item at its
\* tail; on_connect and closePort leave the queue and label_map unchanged.
C19_Frame ==
  [][/\ pc' # pc =>
          /\ UNCHANGED <<connVars, portVars, label_map>>
          /\ payloadQueue' = payloadQueue
               \/ (payloadQueue # << >> /\ payloadQueue' = Tail(payloadQueue)
                     /\ msg' = Head(payloadQueue))
     /\ delivered' # delivered =>
          /\ UNCHANGED <<connVars, portVars, label_map, pc, msg, packet, exc>>
          /\ payloadQueue' = payloadQueue
               \/ (Len(payloadQueue') = Len(payloadQueue) + 1
                     /\ SubSeq(payloadQueue', 1, Len(payloadQueue)) = payloadQueue)
     /\ (connVars' # connVars \/ portVars' # portVars) =>
          UNCHANGED <<payloadQueue, label_map, pc, msg, packet, exc>>
     /\ label_map' = label_map]_vars

\* C19 witness: all four operations have acted: a connect, deliveries, a get by the
\* generator with a payload still queued behind it, and closePort.
C19_Witness ==
  /\ connects >= 1
  /\ disconnects
  /\ Len(dequeued) = 1
  /\ Len(payloadQueue) = 1

====
